---- MODULE Spec2Model ----
(***************************************************************************)
(* TaxiGo enhanced backend: SecurityManager (rate limiter, IP blocklist,   *)
(* JWT token service, auth gate) and the routes that compose them.         *)
(*                                                                         *)
(* Time is counted in ticks of 15 minutes (900 s): the window of every     *)
(* rate-limited call site (window_minutes=15) is one tick, the worker's    *)
(* one-hour cutoff and the access token lifetime are four ticks.           *)
(***************************************************************************)
EXTENDS Integers, Sequences, FiniteSets, TLC

\* ---------------------------------------------------------------- bounds
MaxTime == 5          \* the clock runs over 0..MaxTime
ShortTime == 2        \* the clock's range in the escalation and gate workloads
MaxStall == 1         \* ticks that pass between a request's clock read and its answer
LongStall == 4        \* the same for a request that is kept from the lock for an hour
MaxCount == 6         \* the violation counters run over 0..MaxCount
SmallMax == 1         \* max_requests of the strict call site (5 in the source)
LargeMax == 2         \* max_requests of the lenient call sites (50, 200 in the source)
LongRun == 103        \* Location objects created in the long single-driver run
ShortRun == 3         \* Location objects created in the other gps workloads
MaxFences == 3        \* calls of create_geofence
WallDays == 1         \* whole days the worker's wall clock runs before its last pass

\* ------------------------------------------------------- program constants
SleepUnits == 5           \* time.sleep(300), in minutes of the worker's wall clock
ResetWindow == 5          \* timedelta(minutes=5)
DayUnits == 1440          \* one local day
TickSeconds == 900        \* 15 * 60, one tick in seconds
WindowTicks == 1          \* window_minutes * 60 = 900 s
HourTicks == 4            \* cutoff_time = current_time - 3600
BlockThreshold == 5       \* suspicious_activities[client_ip] >= 5
AccessTokenExpiry == 4    \* timedelta(hours=1)
RefreshTokenExpiry == 2880 \* timedelta(days=30)
DayTicks == 96            \* timedelta(hours=24)
TrackCap == 100           \* keep only last 100 locations
KmPerDegree == 111        \* R * pi / 180 with R = 6371
MaxResults == 20          \* 'max_results': 20
DefaultRadius == 500000   \* radius_km = 5.0
RoundUnit == 1000         \* round(distance, 2)
LatMax == 9000000         \* 'max_value': 90.0
LonMax == 18000000        \* 'max_value': 180.0

Threads == {"t1", "t2"}
IPs == {"ip1", "ip2"}
UserAgents == {"ua1", "ua2"}
Roles == {"passenger", "driver", "business", "admin"}
TzOffsets == {-8, 0, 8}   \* local time minus UTC, in ticks (UTC-2h, UTC, UTC+2h)

None == "None"
NoReq == [ip |-> None, ua |-> None, route |-> None]
NoResp == [status |-> 0, error |-> None, retry_after |-> 0]
NoResult == [success |-> FALSE, error |-> None]

\* ------------------------------------------------------------------ routes
\* The decorated routes: require_auth (when present) is the outer
\* decorator, rate_limit the inner one.
Routes ==
  { [name |-> "enhanced_register", auth |-> FALSE, roles |-> {},
     max |-> SmallMax, window |-> WindowTicks],
    [name |-> "enhanced_login", auth |-> FALSE, roles |-> {},
     max |-> LargeMax, window |-> WindowTicks],
    [name |-> "create_payment_intent", auth |-> TRUE, roles |-> {},
     max |-> LargeMax, window |-> WindowTicks],
    [name |-> "update_driver_location", auth |-> TRUE, roles |-> {"driver"},
     max |-> LargeMax, window |-> WindowTicks] }

RouteNames == {r.name : r \in Routes}
Route(n) == CHOOSE r \in Routes : r.name = n

\* client_id = md5(f"{client_ip}:{user_agent}"): one identifier per pair
client_id(ip, ua) == <<ip, ua>>
Clients == {client_id(ip, ua) : ip \in IPs, ua \in UserAgents}

\* the requests: a source address, a User-Agent header and the route asked for
Requests == [ip : IPs, ua : UserAgents, route : RouteNames]

\* ----------------------------------------------------------- token service
Subjects ==
  [id : {1, 2}, email : {"a@x", "b@x"}, user_type : Roles]
    \cup [id : {1, 2}, email : {"a@x", "b@x"}]

\* dict.get(key, default)
Get(d, key, default) == IF key \in DOMAIN d THEN d[key] ELSE default

\* jwt.encode(payload, key, algorithm): the signed structure
jwt_encode(payload, key) == [payload |-> payload, sig |-> key]

jwt_secret_key == "server"

\* generate_tokens at UTC time now (datetime.utcnow(); PyJWT turns the naive
\* datetimes into UTC epoch values)
generate_tokens(user_data, now) ==
  LET access_payload ==
        [user_id |-> user_data.id, email |-> user_data.email,
         user_type |-> Get(user_data, "user_type", "passenger"),
         iat |-> now, exp |-> now + AccessTokenExpiry, type |-> "access"]
      refresh_payload ==
        [user_id |-> user_data.id, email |-> user_data.email,
         iat |-> now, exp |-> now + RefreshTokenExpiry, type |-> "refresh"]
  IN [success |-> TRUE,
      access_token |-> jwt_encode(access_payload, jwt_secret_key),
      refresh_token |-> jwt_encode(refresh_payload, jwt_secret_key),
      expires_in |-> AccessTokenExpiry * TickSeconds]

\* a string that is not a JWT at all
Garbage == [payload |-> [type |-> "garbage"], sig |-> "none"]

\* a decode that never raises ExpiredSignatureError
jwt_never_expired(exp, now) == FALSE

\* jwt.decode raises ExpiredSignatureError when exp <= now
jwt_expired(exp, now) == exp <= now

\* a verification that skips the kind check
TypeMismatchIgnored(payload, token_type) == FALSE

\* if payload.get('type') != token_type
TypeMismatch(payload, token_type) == Get(payload, "type", None) # token_type

\* datetime.fromtimestamp(ts): the naive LOCAL time of a UTC epoch value
fromtimestamp(ts, tz) == ts + tz

\* verify_token at UTC time now on a host whose local time is UTC + tz.
\* jwt.decode checks the signature, then exp (ExpiredSignatureError),
\* before the code looks at the payload.
verify_token(token, token_type, now, tz) ==
  IF token = Garbage \/ token.sig # jwt_secret_key
    THEN [success |-> FALSE, error |-> "Invalid token"]
  ELSE IF jwt_expired(token.payload.exp, now)
    THEN [success |-> FALSE, error |-> "Token expired"]
  ELSE IF TypeMismatch(token.payload, token_type)
    THEN [success |-> FALSE, error |-> "Invalid token type"]
  ELSE IF now > fromtimestamp(token.payload.exp, tz)
    THEN [success |-> FALSE, error |-> "Token expired"]
  ELSE [success |-> TRUE, payload |-> token.payload]

\* refresh_access_token
refresh_access_token(refresh_token, now, tz) ==
  LET verification == verify_token(refresh_token, "refresh", now, tz)
  IN IF ~verification.success THEN verification
     ELSE LET payload == verification.payload
              user_data == [id |-> payload.user_id, email |-> payload.email,
                            user_type |-> Get(payload, "user_type", "passenger")]
              tokens == generate_tokens(user_data, now)
          IN [success |-> TRUE, access_token |-> tokens.access_token,
              expires_in |-> tokens.expires_in]

\* ------------------------------------------------------------------- state
VARIABLES
  clock,                  \* time.time() / datetime.utcnow(), in ticks
  tz,                     \* the host's local time offset
  rate_limits,            \* defaultdict(deque): client_id -> timestamps
  rate_limit_lock,        \* holder of threading.Lock, or None
  blocked_ips,            \* set of source addresses
  suspicious_activities,  \* defaultdict(int): source address -> violations
  pc, req, current_time, count, resp,   \* request threads
  worker_pc,              \* security_worker position
  unblock_pc, unblock_ip_arg, unblock_result,  \* the unblock_ip caller
  verified, appended, violated, popped, \* history of the request in progress
  race,                   \* history: pairs of requests contending for one slot
  rejections, clean,      \* history: rejections per address since a clean start
  session,                \* the user and token pair a client holds
  verify_call,            \* the last verify_token call and its answer
  refresh_call,           \* the last refresh_access_token call and its answer
  identity,               \* history: kind and role of the payload require_auth verified
  driver_locations,       \* dict, in insertion order: driver id -> list of Location
  passenger_locations,    \* dict: passenger id -> Location
  gps,                    \* the threads serving location updates
  processor,              \* location_processor: position, cutoff, keys left
  nearby_call,            \* the last nearby-drivers query and its answer
  next_seq,               \* the identity the next Location object gets
  recorded,               \* history: the Locations appended per driver, in order
  route_call,             \* the calculate_route call in progress and its answer
  geofences,              \* dict: geofence id -> geofence
  created,                \* history: the ids create_geofence returned, in order
  last_second,            \* the last int(time.time()) create_geofence read
  wall,                   \* local wall clock at the security_worker's run
  resets_today,           \* history: resets performed in the local day of wall
  unmaintained,           \* history: the rate-limit table had no cleaning pass run
  since_unblock           \* history: rejections answered since unblock_ip succeeded

vars == <<clock, tz, rate_limits, rate_limit_lock, blocked_ips,
          suspicious_activities, pc, req, current_time, count, resp,
          worker_pc, unblock_pc, unblock_ip_arg, unblock_result,
          verified, appended, violated, popped, race, rejections, clean,
          session, verify_call, refresh_call, identity,
          driver_locations, passenger_locations, gps, processor, nearby_call,
          next_seq, recorded, route_call, geofences, created, last_second,
          wall, resets_today, unmaintained, since_unblock>>

gpsVars == <<driver_locations, passenger_locations, gps, processor, nearby_call,
             next_seq, recorded>>

routeVars == <<route_call, geofences, created, last_second>>
workerClock == <<wall, resets_today>>
restVars == <<routeVars, workerClock, unmaintained, since_unblock>>
tokenVars == <<session, verify_call, refresh_call>>
limiterVars == <<rate_limits, rate_limit_lock, blocked_ips, suspicious_activities>>
threadVars == <<pc, req, current_time, count, resp>>
unblockVars == <<unblock_pc, unblock_ip_arg, unblock_result>>
historyVars == <<verified, appended, violated, popped, race, rejections, clean,
                 identity>>


\* ----------------------------------------------------------------- helpers
\* self.rate_limits[client_id] of the defaultdict (a missing key reads empty)
Deque(c) == IF c \in DOMAIN rate_limits THEN rate_limits[c] ELSE <<>>

SetDeque(rl, c, q) == [x \in (DOMAIN rl) \cup {c} |-> IF x = c THEN q ELSE rl[x]]

\* while client_requests and client_requests[0] < cutoff: popleft()
RECURSIVE Prune(_, _)
Prune(q, cutoff) ==
  IF q # <<>> /\ Head(q) < cutoff THEN Prune(Tail(q), cutoff) ELSE q

\* the limit check off by one
OverLimitStrict(q, max) == Len(q) > max

\* len(client_requests) >= max_requests
OverLimit(q, max) == Len(q) >= max

\* the prune, check and append not guarded by the lock
AcquirableUnlocked(t) == TRUE

\* `with self.rate_limit_lock:` can be entered
Acquirable(t) == rate_limit_lock = None

ClientOf(t) == client_id(req[t].ip, req[t].ua)
RouteOf(t) == Route(req[t].route)
window_start(t) == current_time[t] - RouteOf(t).window

\* the decorator stack of a route, outermost first
EntryPoint(route) == IF route.auth THEN "require_auth" ELSE "rate_limit"

Blocked429 == [status |-> 429, error |-> "IP address blocked", retry_after |-> 0]
RateLimited429(route) ==
  [status |-> 429, error |-> "Rate limit exceeded",
   retry_after |-> route.window * TickSeconds]
Ok200 == [status |-> 200, error |-> None, retry_after |-> 0]
AuthError(code, msg) == [status |-> code, error |-> msg, retry_after |-> 0]

\* the Authorization headers a request may carry at the current time
HeaderSubjects == {s \in Subjects : s.id = 1 /\ s.email = "a@x"}
Tokens ==
  LET issued == UNION { {generate_tokens(s, iat).access_token,
                         generate_tokens(s, iat).refresh_token} :
                        s \in HeaderSubjects, iat \in 0..clock }
  IN issued \cup {Garbage}
       \cup {[payload |-> k.payload, sig |-> "forged"] : k \in issued}
\* request.headers.get('Authorization') is missing or not a Bearer header
NoHeader == [payload |-> [type |-> "absent"], sig |-> "none"]
Headers == {NoHeader} \cup Tokens

\* no login yet / no verify_token call yet
NoSession == [user |-> [id |-> 0, email |-> None],
              access_token |-> NoHeader, refresh_token |-> NoHeader]
NoVerification == [token |-> NoHeader, token_type |-> None, now |-> 0,
                   result |-> NoResult]

NoRefresh == [token |-> NoHeader, now |-> 0, result |-> NoResult]
\* no token verified for the request in progress
NoIdentity == [type |-> "absent"]

\* history: a thread is between reading and re-checking the counter of ip
MidViolation(ip) ==
  \E t \in Threads : req[t].ip = ip /\ pc[t] \in {"incr_write", "block_check"}

\* history: exactly one slot is left for a request of t's client, route, time
OneSlot(c, route, now) ==
  Len(Prune(Deque(c), now - route.window)) = route.max - 1

\* ------------------------------------------------------------ gps tracker
\* Coordinates are in units of 0.00001 degree, distances in units of
\* 0.00001 km (one centimetre), speeds in units of 0.00001 km/h: a step of
\* one unit of latitude is KmPerDegree centimetres. Accuracy and heading
\* play no part and are left out.
Drivers == {"d1", "d2", "d3"}
Passengers == {"p1"}
Latitudes == {0, 2, 4, 3000, 9100000}
Longitudes == {0, 36000000}
Radii == {300000, DefaultRadius}

\* Location(latitude, longitude, timestamp, speed = 0); seq is the identity
\* of the object, speed_from the object its speed was computed against
Location(latitude, longitude, timestamp, seq) ==
  [latitude |-> latitude, longitude |-> longitude, timestamp |-> timestamp,
   speed |-> 0, seq |-> seq, speed_from |-> 0]
NoLocation == Location(0, 0, 0, 0)

Abs(x) == IF x < 0 THEN -x ELSE x

\* calculate_distance: the haversine formula. Every longitude of the model
\* differs from every other by a multiple of 360 degrees, where
\* sin(delta_lon / 2) is 0 and the formula yields R * |delta_lat| in radians.
calculate_distance(loc1, loc2) ==
  KmPerDegree * Abs(loc2.latitude - loc1.latitude)

\* calculate_speed: kilometres per hour, a tick being a quarter of an hour
calculate_speed(loc1, loc2) ==
  LET distance_km == calculate_distance(loc1, loc2)
      time_diff == loc2.timestamp - loc1.timestamp
  IN IF time_diff > 0 THEN (distance_km * 4) \div time_diff ELSE 0

\* the dict driver_locations as the sequence of its items
Keys(dl) == {dl[i].id : i \in 1..Len(dl)}
Track(dl, id) == dl[CHOOSE i \in 1..Len(dl) : dl[i].id = id].locations
SetTrack(dl, id, locations) ==
  IF id \in Keys(dl)
    THEN [i \in 1..Len(dl) |->
            IF dl[i].id = id THEN [id |-> id, locations |-> locations] ELSE dl[i]]
    ELSE Append(dl, [id |-> id, locations |-> locations])
DelKey(dl, id) ==
  LET Other(e) == e.id # id IN SelectSeq(dl, Other)
KeyList(dl) == [i \in 1..Len(dl) |-> dl[i].id]

\* the last n elements of a list: list[-n:]
Last(list, n) ==
  IF Len(list) <= n THEN list ELSE SubSeq(list, Len(list) - n + 1, Len(list))

\* a cap that keeps the oldest entries
CappedOldest(locations) ==
  IF Len(locations) > TrackCap THEN SubSeq(locations, 1, TrackCap) ELSE locations

\* if len(...) > 100: self.driver_locations[driver_id] = ...[-100:]
Capped(locations) ==
  IF Len(locations) > TrackCap THEN Last(locations, TrackCap) ELSE locations

GpsIdle == [pc |-> "idle", driver_id |-> None, location |-> NoLocation,
            prev_location |-> NoLocation, result |-> NoResult]
ProcessorAsleep == [pc |-> "sleep", cutoff_time |-> 0, keys |-> <<>>, kept |-> <<>>]
\* no calculate_route call in progress
NoData == [json |-> FALSE]
NoRoute == [pc |-> "idle", start_location |-> NoLocation,
            end_location |-> NoLocation,
            response |-> [raised |-> FALSE, data |-> NoData],
            route |-> [start_location |-> NoLocation, end_location |-> NoLocation,
                       waypoints |-> <<>>, distance_km |-> 0,
                       duration_minutes |-> 0]]
NoNearby == [latitude |-> 0, longitude |-> 0, radius_km |-> 0, max_results |-> 0,
             success |-> FALSE, nearby_drivers |-> <<>>]

\* ------------------------------------------------------------------- Init
Init ==
  /\ clock = 0
  /\ tz \in TzOffsets
  /\ rate_limits = <<>>
  /\ rate_limit_lock = None
  /\ blocked_ips = {}
  /\ suspicious_activities = [ip \in IPs |-> 0]
  /\ pc = [t \in Threads |-> "idle"]
  /\ req = [t \in Threads |-> NoReq]
  /\ current_time = [t \in Threads |-> 0]
  /\ count = [t \in Threads |-> 0]
  /\ resp = [t \in Threads |-> NoResp]
  /\ worker_pc = "clean"
  /\ unblock_pc = "idle"
  /\ unblock_ip_arg = None
  /\ unblock_result = NoResult
  /\ verified = [t \in Threads |-> FALSE]
  /\ appended = [t \in Threads |-> FALSE]
  /\ violated = [t \in Threads |-> FALSE]
  /\ popped = [t \in Threads |-> 0]
  /\ race = {}
  /\ rejections = [ip \in IPs |-> 0]
  /\ clean = [ip \in IPs |-> "init"]
  /\ session = NoSession
  /\ verify_call = NoVerification
  /\ refresh_call = NoRefresh
  /\ identity = [t \in Threads |-> NoIdentity]
  /\ driver_locations = <<>>
  /\ passenger_locations = <<>>
  /\ gps = [t \in Threads |-> GpsIdle]
  /\ processor = ProcessorAsleep
  /\ nearby_call = NoNearby
  /\ next_seq = 1
  /\ recorded = [d \in Drivers |-> <<>>]
  /\ route_call = NoRoute
  /\ geofences = <<>>
  /\ created = <<>>
  /\ last_second = 0
  /\ wall = 0
  /\ resets_today = 0
  /\ unmaintained = [c \in Clients |-> <<>>]
  /\ since_unblock = [ip \in IPs |-> BlockThreshold]

\* ------------------------------------------------------------ the clock
\* a thread that has read the clock and not yet answered
Timed(t) == pc[t] \in {"lock", "append", "incr_write", "block_check"}

TickTo(limit) ==
  /\ clock < limit
  /\ \A t \in Threads : Timed(t) => clock - current_time[t] < MaxStall
  /\ clock' = clock + 1
  /\ UNCHANGED <<tz, restVars, gpsVars, tokenVars, limiterVars, threadVars, worker_pc, unblockVars,
                 historyVars>>

Tick == TickTo(MaxTime)

\* the clock while a request that has read it at line 227 is kept from the
\* lock for up to LongStall ticks
TickLong ==
  /\ clock < MaxTime
  /\ \A t \in Threads : Timed(t) => clock - current_time[t] < LongStall
  /\ clock' = clock + 1
  /\ UNCHANGED <<tz, restVars, gpsVars, tokenVars, limiterVars, threadVars, worker_pc, unblockVars,
                 historyVars>>

\* ------------------------------------------------------- request threads
\* an auth rejection counted as a violation of the address
AuthRejectCounts(ip) ==
  /\ suspicious_activities' =
       [suspicious_activities EXCEPT ![ip] = IF @ < MaxCount THEN @ + 1 ELSE @]
  /\ blocked_ips' = IF suspicious_activities'[ip] >= BlockThreshold
                      THEN blocked_ips \cup {ip} ELSE blocked_ips

\* what a request rejected by require_auth does to the limiter's tables
AuthRejectEffect(ip) ==
  UNCHANGED <<blocked_ips, suspicious_activities>>

\* a role check that forgets that no required roles means any role
RoleDeniedStrict(required_roles, payload) ==
  Get(payload, "user_type", "passenger") \notin required_roles

\* if required_roles: ... if user_type not in required_roles
RoleDenied(required_roles, payload) ==
  /\ required_roles # {}
  /\ Get(payload, "user_type", "passenger") \notin required_roles

\* require_auth.decorated_function, the outer decorator of a protected
\* route: a request arrives and its Authorization header is examined
RequireAuth(t, r) ==
  /\ pc[t] = "idle"
  /\ EntryPoint(Route(r.route)) = "require_auth"
  /\ \E auth_header \in Headers :
       /\ req' = [req EXCEPT ![t] = r]
       /\ IF auth_header = NoHeader
            THEN /\ resp' = [resp EXCEPT ![t] =
                      AuthError(401, "Missing or invalid authorization header")]
                 /\ pc' = [pc EXCEPT ![t] = "done"]
                 /\ AuthRejectEffect(r.ip)
                 /\ UNCHANGED <<verified, identity>>
            ELSE LET verification == verify_token(auth_header, "access", clock, tz)
                     required_roles == Route(r.route).roles
                 IN /\ verified' = [verified EXCEPT ![t] = TRUE]
                    /\ identity' = [identity EXCEPT ![t] =
                         IF verification.success
                           THEN [type |-> verification.payload.type,
                                 user_type |-> Get(verification.payload,
                                                   "user_type", "passenger")]
                           ELSE @]
                    /\ IF ~verification.success
                         THEN /\ resp' = [resp EXCEPT ![t] =
                                   AuthError(401, verification.error)]
                              /\ pc' = [pc EXCEPT ![t] = "done"]
                              /\ AuthRejectEffect(r.ip)
                         ELSE IF RoleDenied(required_roles, verification.payload)
                           THEN /\ resp' = [resp EXCEPT ![t] =
                                     AuthError(403, "Insufficient permissions")]
                                /\ pc' = [pc EXCEPT ![t] = "done"]
                                /\ AuthRejectEffect(r.ip)
                           ELSE /\ pc' = [pc EXCEPT ![t] = "rate_limit"]
                                /\ UNCHANGED <<resp, blocked_ips, suspicious_activities>>
  /\ UNCHANGED <<clock, tz, restVars, gpsVars, tokenVars, rate_limits, rate_limit_lock, current_time,
                 count, worker_pc, unblockVars, appended, popped, violated, race,
                 rejections, clean>>

\* rate_limit.decorated_function, up to the lock: the blocked check and
\* the clock read, for the request r of thread t
BlockedCheck(t, r) ==
  /\ req' = [req EXCEPT ![t] = r]
  /\ IF r.ip \in blocked_ips
       THEN /\ resp' = [resp EXCEPT ![t] = Blocked429]
            /\ pc' = [pc EXCEPT ![t] = "done"]
            /\ UNCHANGED <<current_time, race>>
       ELSE /\ current_time' = [current_time EXCEPT ![t] = clock]
            /\ pc' = [pc EXCEPT ![t] = "lock"]
            /\ race' = race \cup
                 { {t, u} : u \in { u \in Threads \ {t} :
                     /\ pc[u] = "lock"
                     /\ ClientOf(u) = client_id(r.ip, r.ua)
                     /\ req[u].route = r.route
                     /\ current_time[u] >= clock - Route(r.route).window
                     /\ OneSlot(ClientOf(u), Route(r.route), clock)
                     /\ OneSlot(ClientOf(u), RouteOf(u), current_time[u]) } }
            /\ UNCHANGED resp
  /\ UNCHANGED <<clock, tz, restVars, gpsVars, tokenVars, identity, limiterVars, count, worker_pc, unblockVars,
                 verified, appended, popped, violated, rejections, clean>>

\* a request arrives at a route whose only decorator is rate_limit
RateLimitArrive(t, r) ==
  /\ pc[t] = "idle"
  /\ EntryPoint(Route(r.route)) = "rate_limit"
  /\ BlockedCheck(t, r)

\* a request that require_auth has passed enters the inner rate_limit
RateLimitInner(t) ==
  /\ pc[t] = "rate_limit"
  /\ BlockedCheck(t, req[t])

\* inside the lock: the lazy prune and the limit check; on a violation the
\* counter of the address is read for the += 1
Check(t) ==
  /\ pc[t] = "lock"
  /\ Acquirable(t)
  /\ LET client_requests == Prune(Deque(ClientOf(t)), window_start(t))
     IN /\ rate_limits' = SetDeque(rate_limits, ClientOf(t), client_requests)
        /\ unmaintained' = [unmaintained EXCEPT ![ClientOf(t)] =
                               Prune(@, window_start(t))]
        /\ rate_limit_lock' = t
        /\ popped' = [popped EXCEPT ![t] =
                        Len(Deque(ClientOf(t))) - Len(client_requests)]
        /\ IF OverLimit(client_requests, RouteOf(t).max)
             THEN /\ pc' = [pc EXCEPT ![t] = "incr_write"]
                  /\ count' = [count EXCEPT ![t] = suspicious_activities[req[t].ip]]
             ELSE /\ pc' = [pc EXCEPT ![t] = "append"]
                  /\ UNCHANGED count
  /\ UNCHANGED <<clock, tz, routeVars, workerClock, since_unblock, gpsVars, tokenVars, identity, blocked_ips, suspicious_activities, req,
                 current_time, resp, worker_pc, unblockVars, verified, appended,
                 violated, race, rejections, clean>>

\* client_requests.append(current_time), the end of the with block, and
\* return f(*args, **kwargs)
AppendRequest(t) ==
  /\ pc[t] = "append"
  /\ rate_limits' = SetDeque(rate_limits, ClientOf(t),
                             Append(Deque(ClientOf(t)), current_time[t]))
  /\ unmaintained' = [unmaintained EXCEPT ![ClientOf(t)] =
                         Append(@, current_time[t])]
  /\ rate_limit_lock' = None
  /\ pc' = [pc EXCEPT ![t] = "done"]
  /\ resp' = [resp EXCEPT ![t] = Ok200]
  /\ current_time' = [current_time EXCEPT ![t] = 0]
  /\ appended' = [appended EXCEPT ![t] = TRUE]
  /\ popped' = [popped EXCEPT ![t] = 0]
  /\ UNCHANGED <<clock, tz, routeVars, workerClock, since_unblock, gpsVars, tokenVars, identity, blocked_ips, suspicious_activities, req,
                 count, worker_pc, unblockVars, verified,
                 violated, race, rejections, clean>>

\* self.suspicious_activities[client_ip] += 1, the store
IncrWrite(t) ==
  /\ pc[t] = "incr_write"
  /\ count[t] < MaxCount
  /\ suspicious_activities' =
       [suspicious_activities EXCEPT ![req[t].ip] = count[t] + 1]
  /\ count' = [count EXCEPT ![t] = 0]
  /\ pc' = [pc EXCEPT ![t] = "block_check"]
  /\ violated' = [violated EXCEPT ![t] = TRUE]
  /\ UNCHANGED <<clock, tz, restVars, gpsVars, tokenVars, identity, rate_limits, rate_limit_lock, blocked_ips, req,
                 current_time, resp, worker_pc, unblockVars, verified, appended, popped,
                 race, rejections, clean>>

\* the threshold compared off by one
ReachedThresholdLate(n) == n > BlockThreshold

\* if self.suspicious_activities[client_ip] >= 5
ReachedThreshold(n) == n >= BlockThreshold

\* the block decision and the 429 answer, end of the with block
BlockCheck(t) ==
  /\ pc[t] = "block_check"
  /\ blocked_ips' = IF ReachedThreshold(suspicious_activities[req[t].ip])
                      THEN blocked_ips \cup {req[t].ip} ELSE blocked_ips
  /\ rate_limit_lock' = None
  /\ resp' = [resp EXCEPT ![t] = RateLimited429(RouteOf(t))]
  /\ pc' = [pc EXCEPT ![t] = "done"]
  /\ current_time' = [current_time EXCEPT ![t] = 0]
  /\ since_unblock' = [since_unblock EXCEPT ![req[t].ip] =
                         IF @ < BlockThreshold THEN @ + 1 ELSE @]
  /\ rejections' = [rejections EXCEPT ![req[t].ip] =
                      IF clean[req[t].ip] # "no" THEN @ + 1 ELSE 0]
  /\ UNCHANGED <<clock, tz, routeVars, workerClock, unmaintained, gpsVars, tokenVars, identity, rate_limits, suspicious_activities, req,
                 count, worker_pc, unblockVars, verified,
                 appended, popped, violated, race, clean>>

\* the response is sent; the thread serves the next request
Finish(t) ==
  /\ pc[t] = "done"
  /\ pc' = [pc EXCEPT ![t] = "idle"]
  /\ req' = [req EXCEPT ![t] = NoReq]
  /\ resp' = [resp EXCEPT ![t] = NoResp]
  /\ verified' = [verified EXCEPT ![t] = FALSE]
  /\ appended' = [appended EXCEPT ![t] = FALSE]
  /\ violated' = [violated EXCEPT ![t] = FALSE]
  /\ popped' = [popped EXCEPT ![t] = 0]
  /\ race' = {p \in race : t \notin p}
  /\ identity' = [identity EXCEPT ![t] = NoIdentity]
  /\ UNCHANGED <<clock, tz, restVars, gpsVars, tokenVars, limiterVars, current_time, count, worker_pc,
                 unblockVars, rejections, clean>>

\* --------------------------------------------------------- security_worker
\* a cleaning pass that drops old timestamps and keeps the emptied entries
CleanTableKeepEmpty(rl, now) ==
  LET cutoff_time == now - HourTicks
  IN [c \in DOMAIN rl |-> Prune(rl[c], cutoff_time)]

\* the cleaning pass over the whole table, inside the lock
CleanTable(rl, now) ==
  LET cutoff_time == now - HourTicks
      kept == {c \in DOMAIN rl : Prune(rl[c], cutoff_time) # <<>>}
  IN [c \in kept |-> Prune(rl[c], cutoff_time)]

\* time.sleep(300) is over and the lock is taken
WorkerClean ==
  /\ worker_pc = "clean"
  /\ rate_limit_lock = None
  /\ rate_limits' = CleanTable(rate_limits, clock)
  /\ worker_pc' = "reset"
  /\ race' = {p \in race : \A t \in p :
                Deque(ClientOf(t)) = Get(rate_limits', ClientOf(t), <<>>)}
  /\ UNCHANGED <<clock, tz, restVars, gpsVars, tokenVars, identity, rate_limit_lock, blocked_ips, suspicious_activities,
                 threadVars, unblockVars, verified, appended, popped, violated,
                 rejections, clean>>

\* a daily reset that forgets the blocklist too
DailyResetAlsoUnblocks ==
  /\ suspicious_activities' = [ip \in IPs |-> 0]
  /\ blocked_ips' = {}

\* what the daily reset clears: self.suspicious_activities.clear()
DailyReset ==
  /\ suspicious_activities' = [ip \in IPs |-> 0]
  /\ UNCHANGED blocked_ips

\* lines 497-500 for a run that is, or is not, within five minutes of local
\* midnight: the counters are cleared only when it is
WorkerResetWith(near_midnight) ==
  /\ worker_pc = "reset"
  /\ IF near_midnight
       THEN /\ DailyReset
            /\ rejections' = [ip \in IPs |-> 0]
            /\ clean' = [ip \in IPs |->
                 IF ip \notin blocked_ips /\ ~MidViolation(ip)
                   THEN "reset" ELSE "no"]
       ELSE UNCHANGED <<suspicious_activities, blocked_ips, rejections, clean>>
  /\ worker_pc' = "clean"
  /\ UNCHANGED <<clock, tz, routeVars, unmaintained, since_unblock, gpsVars, tokenVars, identity,
                 rate_limits, rate_limit_lock, threadVars,
                 unblockVars, verified, appended, popped, violated, race>>

\* datetime.now() - reset_time < timedelta(minutes=5): whether the run falls
\* into the first five minutes of the local day is decided by the wall clock
WorkerReset ==
  /\ \E near_midnight \in BOOLEAN : WorkerResetWith(near_midnight)
  /\ UNCHANGED workerClock

\* the local day a wall-clock time belongs to, and the time within that day
DayOf(now) == now \div DayUnits
TimeOfDay(now) == now % DayUnits

\* line 498-499: reset_time is the local midnight before now, and the run
\* resets when less than five minutes have passed since then
near_midnight(now) == TimeOfDay(now) < ResetWindow

\* the time of the worker's latest test of line 499 (it went to sleep right
\* after it); below zero while it has made none
LastCheck == wall - SleepUnits

\* what the cleaning pass and its wait for the lock take, in wall-clock units
ProcessingUnits == {0, 1}

\* one pass of security_worker on the wall clock: it woke up at time wall,
\* the cleaning pass and the wait for the lock took processing units, then
\* lines 497-500 run at time now and time.sleep(300) follows
WorkerResetTimed(processing) ==
  LET now == wall + processing
  IN /\ wall < WallDays * DayUnits + ResetWindow
     /\ WorkerResetWith(near_midnight(now))
     /\ wall' = now + SleepUnits
     /\ resets_today' =
          (IF LastCheck >= 0 /\ DayOf(LastCheck) = DayOf(now) THEN resets_today ELSE 0)
            + (IF near_midnight(now) THEN 1 ELSE 0)

\* --------------------------------------------------------------- unblock_ip
\* an unblock that clears the count of an address that was not blocked
CounterIfNotBlockedCleared(n) == 0

\* the else branch of unblock_ip touches nothing
CounterIfNotBlocked(n) == n

\* the membership test and self.blocked_ips.remove(ip_address)
UnblockRemove(ip) ==
  /\ unblock_pc = "idle"
  /\ unblock_ip_arg' = ip
  /\ IF ip \in blocked_ips
       THEN /\ blocked_ips' = blocked_ips \ {ip}
            /\ unblock_pc' = "del"
            /\ unblock_result' = NoResult
            /\ rejections' = [rejections EXCEPT ![ip] = 0]
            /\ clean' = [clean EXCEPT ![ip] = "no"]
            /\ UNCHANGED suspicious_activities
       ELSE /\ unblock_result' =
                 [success |-> FALSE, error |-> "IP address is not blocked"]
            /\ suspicious_activities' =
                 [suspicious_activities EXCEPT ![ip] = CounterIfNotBlocked(@)]
            /\ UNCHANGED <<blocked_ips, unblock_pc, rejections, clean>>
  /\ UNCHANGED <<clock, tz, restVars, gpsVars, tokenVars, identity, rate_limits, rate_limit_lock,
                 threadVars, worker_pc, verified, appended, popped, violated, race>>

\* an unblock that keeps the violation count
CounterKept(n) == n

\* del self.suspicious_activities[ip_address]: the defaultdict reads 0 again
CounterAfterUnblock(n) == 0

\* del self.suspicious_activities[ip_address] and the success answer
UnblockDel ==
  /\ unblock_pc = "del"
  /\ suspicious_activities' =
       [suspicious_activities EXCEPT ![unblock_ip_arg] = CounterAfterUnblock(@)]
  /\ unblock_pc' = "idle"
  /\ UNCHANGED unblock_ip_arg
  /\ since_unblock' = [since_unblock EXCEPT ![unblock_ip_arg] = 0]
  /\ unblock_result' = [success |-> TRUE, error |-> None]
  /\ rejections' = [rejections EXCEPT ![unblock_ip_arg] = 0]
  /\ clean' = [clean EXCEPT ![unblock_ip_arg] =
                 IF unblock_ip_arg \notin blocked_ips /\ ~MidViolation(unblock_ip_arg)
                   THEN "unblock" ELSE "no"]
  /\ UNCHANGED <<clock, tz, routeVars, workerClock, unmaintained, gpsVars, tokenVars, identity, rate_limits, rate_limit_lock, blocked_ips,
                 threadVars, worker_pc, verified, appended, popped, violated, race>>

\* ------------------------------------------------------------------- Next
\* ------------------------------------------------------------ token calls
\* a login or registration issues a token pair for the user s
GenerateTokens(s) ==
  /\ LET tokens == generate_tokens(s, clock)
     IN session' = [user |-> s, access_token |-> tokens.access_token,
                    refresh_token |-> tokens.refresh_token]
  /\ verify_call' = NoVerification
  /\ refresh_call' = NoRefresh
  /\ UNCHANGED <<clock, tz, restVars, gpsVars, limiterVars, threadVars, worker_pc, unblockVars,
                 historyVars>>

\* the refresh token of a login of the same user a tick more than
\* refresh_token_expiry ago
StaleRefresh ==
  generate_tokens(session.user, clock - RefreshTokenExpiry - 1).refresh_token

\* the strings the client can present: its two tokens, the refresh token of
\* an old login and a non-token
Presentable ==
  {session.access_token, session.refresh_token, StaleRefresh, Garbage}

\* verify_token(token, token_type) called now
VerifyToken(token, token_type) ==
  /\ session # NoSession
  /\ verify_call' = [token |-> token, token_type |-> token_type, now |-> clock,
                      result |-> verify_token(token, token_type, clock, tz)]
  /\ UNCHANGED <<clock, tz, restVars, gpsVars, session, refresh_call, limiterVars, threadVars,
                 worker_pc, unblockVars, historyVars>>

\* POST /api/auth/refresh with the string the client sends as refresh_token
RefreshAccessToken(token) ==
  /\ session # NoSession
  /\ LET result == refresh_access_token(token, clock, tz)
     IN /\ refresh_call' = [token |-> token, now |-> clock, result |-> result]
        /\ session' = IF result.success
                        THEN [session EXCEPT !.access_token = result.access_token]
                        ELSE session
  /\ UNCHANGED <<clock, tz, restVars, gpsVars, verify_call, limiterVars, threadVars, worker_pc,
                 unblockVars, historyVars>>

\* ---------------------------------------------------- location updates
gpsRest == <<passenger_locations, processor, nearby_call>>
notGps == <<tz, restVars, tokenVars, limiterVars, threadVars, worker_pc, unblockVars,
            historyVars>>

GpsSuccess == [success |-> TRUE, error |-> None]
\* except Exception as e: return {'success': False, 'error': str(e)}
GpsFailure(e) == [success |-> FALSE, error |-> e]

\* location.speed = speed: the object is changed wherever a list holds it
SetSpeed(dl, seq, speed, from) ==
  [i \in 1..Len(dl) |->
     [id |-> dl[i].id,
      locations |-> [j \in 1..Len(dl[i].locations) |->
         IF dl[i].locations[j].seq = seq
           THEN [dl[i].locations[j] EXCEPT !.speed = speed, !.speed_from = from]
           ELSE dl[i].locations[j]]]]

\* POST /api/gps/update-location: the route builds the Location with
\* timestamp = datetime.now() and calls the tracker by user_type; a
\* passenger's position is overwritten at once
UpdateLocation(t, user_id, user_type, latitude, longitude) ==
  /\ gps[t].pc = "idle"
  /\ next_seq <= LongRun
  /\ next_seq' = next_seq + 1
  /\ LET location == Location(latitude, longitude, clock, next_seq)
     IN IF user_type = "driver"
          THEN /\ gps' = [gps EXCEPT ![t] =
                    [GpsIdle EXCEPT !.pc = "check", !.driver_id = user_id,
                                    !.location = location]]
               /\ UNCHANGED passenger_locations
          ELSE /\ passenger_locations' =
                    [x \in DOMAIN passenger_locations \cup {user_id} |->
                       IF x = user_id THEN location ELSE passenger_locations[x]]
               /\ gps' = [gps EXCEPT ![t] =
                    [GpsIdle EXCEPT !.pc = "done", !.location = location,
                                    !.result = GpsSuccess]]
  /\ UNCHANGED <<clock, notGps, driver_locations, processor, nearby_call, recorded>>

\* if driver_id not in self.driver_locations
DriverCheck(t) ==
  /\ gps[t].pc = "check"
  /\ gps' = [gps EXCEPT ![t].pc =
       IF gps[t].driver_id \in Keys(driver_locations) THEN "append" ELSE "create"]
  /\ UNCHANGED <<clock, notGps, driver_locations, gpsRest, next_seq, recorded>>

\* self.driver_locations[driver_id] = []
DriverCreate(t) ==
  /\ gps[t].pc = "create"
  /\ driver_locations' = SetTrack(driver_locations, gps[t].driver_id, <<>>)
  /\ gps' = [gps EXCEPT ![t].pc = "append"]
  /\ UNCHANGED <<clock, notGps, gpsRest, next_seq, recorded>>

\* a statement that reads self.driver_locations[driver_id] after the key
\* was deleted raises KeyError, which the handler turns into a failure
KeyErrorExit(t) ==
  /\ gps[t].driver_id \notin Keys(driver_locations)
  /\ gps' = [gps EXCEPT ![t].pc = "done", ![t].result = GpsFailure("KeyError")]
  /\ UNCHANGED <<driver_locations, recorded>>

\* self.driver_locations[driver_id].append(location)
DriverAppend(t) ==
  /\ gps[t].pc = "append"
  /\ \/ KeyErrorExit(t)
     \/ /\ gps[t].driver_id \in Keys(driver_locations)
        /\ driver_locations' = SetTrack(driver_locations, gps[t].driver_id,
             Append(Track(driver_locations, gps[t].driver_id), gps[t].location))
        /\ recorded' = [recorded EXCEPT ![gps[t].driver_id] =
                          Append(@, gps[t].location.seq)]
        /\ gps' = [gps EXCEPT ![t].pc = "cap"]
  /\ UNCHANGED <<clock, notGps, gpsRest, next_seq>>

\* if len(...) > 100: keep the last 100
DriverCap(t) ==
  /\ gps[t].pc = "cap"
  /\ \/ KeyErrorExit(t)
     \/ /\ gps[t].driver_id \in Keys(driver_locations)
        /\ driver_locations' = SetTrack(driver_locations, gps[t].driver_id,
             Capped(Track(driver_locations, gps[t].driver_id)))
        /\ gps' = [gps EXCEPT ![t].pc = "prev"]
        /\ UNCHANGED recorded
  /\ UNCHANGED <<clock, notGps, gpsRest, next_seq>>

\* if len(...) > 1: prev_location = self.driver_locations[driver_id][-2];
\* with a single entry the call goes on to its return
DriverPrev(t) ==
  /\ gps[t].pc = "prev"
  /\ \/ KeyErrorExit(t)
     \/ /\ gps[t].driver_id \in Keys(driver_locations)
        /\ LET locations == Track(driver_locations, gps[t].driver_id)
           IN gps' = IF Len(locations) > 1
                       THEN [gps EXCEPT ![t].pc = "speed",
                                        ![t].prev_location = locations[Len(locations) - 1]]
                       ELSE [gps EXCEPT ![t].pc = "done", ![t].result = GpsSuccess]
        /\ UNCHANGED <<driver_locations, recorded>>
  /\ UNCHANGED <<clock, notGps, gpsRest, next_seq>>

\* speed = self.calculate_speed(prev_location, location);
\* location.speed = speed; the geofence check and the return
DriverSpeed(t) ==
  /\ gps[t].pc = "speed"
  /\ LET speed == calculate_speed(gps[t].prev_location, gps[t].location)
         from == gps[t].prev_location.seq
     IN /\ driver_locations' =
             SetSpeed(driver_locations, gps[t].location.seq, speed, from)
        /\ gps' = [gps EXCEPT ![t].pc = "done", ![t].result = GpsSuccess,
                              ![t].location.speed = speed,
                              ![t].location.speed_from = from]
  /\ UNCHANGED <<clock, notGps, gpsRest, next_seq, recorded>>

\* the answer is sent; the thread serves the next update
GpsFinish(t) ==
  /\ gps[t].pc = "done"
  /\ gps' = [gps EXCEPT ![t] = GpsIdle]
  /\ UNCHANGED <<clock, notGps, driver_locations, gpsRest, next_seq, recorded>>

\* ------------------------------------------------------ location_processor
gpsThreads == <<gps, nearby_call, next_seq, recorded>>

\* loc.timestamp > cutoff_time: a driver's entry is kept
KeptInTrack(loc, cutoff_time) == loc.timestamp > cutoff_time
\* location.timestamp < cutoff_time: a passenger's position is deleted
PassengerStale(loc, cutoff_time) == loc.timestamp < cutoff_time

\* the pass goes on with the next driver id, or with the passengers
NextKey(p) ==
  IF Len(p.keys) > 1 THEN [p EXCEPT !.pc = "read", !.keys = Tail(p.keys), !.kept = <<>>]
  ELSE [p EXCEPT !.pc = "passengers", !.keys = <<>>, !.kept = <<>>]

\* cutoff_time = datetime.now() - timedelta(hours=24) and the snapshot
\* list(self.driver_locations.keys())
ProcessorStart ==
  /\ processor.pc = "sleep"
  /\ processor' = [pc |-> IF driver_locations = <<>> THEN "passengers" ELSE "read",
                   cutoff_time |-> clock - DayTicks,
                   keys |-> KeyList(driver_locations),
                   kept |-> <<>>]
  /\ UNCHANGED <<clock, notGps, driver_locations, passenger_locations, gpsThreads>>

\* locations = self.driver_locations[driver_id] and the list comprehension
\* over it: the filtered list is built and not yet stored
ProcessorRead ==
  /\ processor.pc = "read"
  /\ LET driver_id == Head(processor.keys)
         Kept(loc) == KeptInTrack(loc, processor.cutoff_time)
     IN processor' = [processor EXCEPT !.pc = "filter",
                        !.kept = SelectSeq(Track(driver_locations, driver_id), Kept)]
  /\ UNCHANGED <<clock, notGps, driver_locations, passenger_locations, gpsThreads>>

\* self.driver_locations[driver_id] = [...]: the filtered list is put in the
\* track's place
ProcessorFilter ==
  /\ processor.pc = "filter"
  /\ driver_locations' = SetTrack(driver_locations, Head(processor.keys),
                                  processor.kept)
  /\ processor' = [processor EXCEPT !.pc = "empty"]
  /\ UNCHANGED <<clock, notGps, passenger_locations, gpsThreads>>

\* if not self.driver_locations[driver_id]
ProcessorEmpty ==
  /\ processor.pc = "empty"
  /\ processor' = IF Track(driver_locations, Head(processor.keys)) = <<>>
                    THEN [processor EXCEPT !.pc = "del"]
                    ELSE NextKey(processor)
  /\ UNCHANGED <<clock, notGps, driver_locations, passenger_locations, gpsThreads>>

\* del self.driver_locations[driver_id]
ProcessorDel ==
  /\ processor.pc = "del"
  /\ driver_locations' = DelKey(driver_locations, Head(processor.keys))
  /\ processor' = NextKey(processor)
  /\ UNCHANGED <<clock, notGps, passenger_locations, gpsThreads>>

\* the loop over the passengers, then time.sleep(300)
ProcessorPassengers ==
  /\ processor.pc = "passengers"
  /\ passenger_locations' =
       [x \in {y \in DOMAIN passenger_locations :
                 ~PassengerStale(passenger_locations[y], processor.cutoff_time)} |->
          passenger_locations[x]]
  /\ processor' = ProcessorAsleep
  /\ UNCHANGED <<clock, notGps, driver_locations, gpsThreads>>

\* time passes while the limiter is idle: a tick, or a tick short of a day
Elapse(n) ==
  /\ n \in {1, DayTicks - 1}
  /\ clock + n <= DayTicks + ShortTime
  /\ \A t \in Threads : pc[t] = "idle"
  /\ clock' = clock + n
  /\ UNCHANGED <<notGps, gpsVars>>

\* ------------------------------------------------------- nearby drivers
\* if distance <= radius_km
InRadius(distance, radius_km) == distance <= radius_km

\* round(distance, 2): to the nearest hundredth of a kilometre
round_2(distance) == ((distance + RoundUnit \div 2) \div RoundUnit) * RoundUnit

\* latest_location = locations[-1]
latest_of(locations) == locations[Len(locations)]

\* the loop of find_nearby_drivers over the items from the i-th on: a driver
\* with an empty list is skipped, one in range is appended with the distance
\* from the passenger to its latest location
RECURSIVE NearbyFrom(_, _, _, _)
NearbyFrom(dl, i, passenger_location, radius_km) ==
  IF i > Len(dl) THEN <<>>
  ELSE LET locations == dl[i].locations
           rest == NearbyFrom(dl, i + 1, passenger_location, radius_km)
       IN IF locations = <<>> THEN rest
          ELSE LET latest_location == latest_of(locations)
                   distance == calculate_distance(passenger_location, latest_location)
               IN IF InRadius(distance, radius_km)
                    THEN <<[driver_id |-> dl[i].id,
                            distance_km |-> round_2(distance),
                            seq |-> latest_location.seq]>> \o rest
                    ELSE rest

\* list.sort(key=lambda x: x['distance_km']): stable, ascending
RECURSIVE SortByDistance(_)
SortByDistance(list) ==
  IF list = <<>> THEN <<>>
  ELSE LET front == SortByDistance(SubSeq(list, 1, Len(list) - 1))
           x == list[Len(list)]
           NotAfter(e) == e.distance_km <= x.distance_km
           After(e) == e.distance_km > x.distance_km
       IN SelectSeq(front, NotAfter) \o <<x>> \o SelectSeq(front, After)

find_nearby_drivers(dl, passenger_location, radius_km) ==
  SortByDistance(NearbyFrom(dl, 1, passenger_location, radius_km))

\* POST /api/gps/nearby-drivers of main.py: the tracker is called with a
\* Location and the radius, and everything it returns is sent
FindNearbyDrivers(latitude, longitude, radius_km) ==
  /\ nearby_call' =
       [latitude |-> latitude, longitude |-> longitude, radius_km |-> radius_km,
        max_results |-> 0, success |-> TRUE,
        nearby_drivers |-> find_nearby_drivers(driver_locations,
                             Location(latitude, longitude, clock, 0), radius_km)]
  /\ UNCHANGED <<clock, notGps, driver_locations, passenger_locations, gps,
                 processor, next_seq, recorded>>

\* POST /api/gps/nearby-drivers of enhanced_routes.py: the tracker is called
\* with the dict search_params in the place of the Location, so radius_km
\* keeps its default and max_results goes nowhere; with no driver to compare
\* the loop ends and the empty list is sent, otherwise
\* calculate_distance reads .latitude of a dict and the route answers 500
EnhancedFindNearbyDrivers(latitude, longitude, radius_km) ==
  /\ LET none == \A i \in 1..Len(driver_locations) :
                    driver_locations[i].locations = <<>>
     IN nearby_call' =
          [latitude |-> latitude, longitude |-> longitude, radius_km |-> radius_km,
           max_results |-> MaxResults, success |-> none, nearby_drivers |-> <<>>]
  /\ UNCHANGED <<clock, notGps, driver_locations, passenger_locations, gps,
                 processor, next_seq, recorded>>

\* ------------------------------------------------------- calculate_route
\* what requests.get(url, params=params) and response.json() can give: the
\* call raises (no connection, a reset, a DNS failure), the body is not JSON,
\* the JSON has no 'status', the status is not 'OK', the status is 'OK' with
\* no route, or it is 'OK' with a route of one leg. The HTTP status code is
\* never read. Leg distances are in metres and durations in seconds.
Leg == [distance |-> 5000, duration |-> 600,
        steps |-> <<[lat |-> 0, lng |-> 0], [lat |-> 2, lng |-> 0]>>]
ProviderAnswers ==
  { [raised |-> TRUE, data |-> NoData],
    [raised |-> FALSE, data |-> NoData],
    [raised |-> FALSE, data |-> [json |-> TRUE, error_message |-> "denied"]],
    [raised |-> FALSE,
     data |-> [json |-> TRUE, status |-> "ZERO_RESULTS", routes |-> <<>>]],
    [raised |-> FALSE, data |-> [json |-> TRUE, status |-> "OK", routes |-> <<>>]],
    [raised |-> FALSE,
     data |-> [json |-> TRUE, status |-> "OK", routes |-> <<Leg>>]] }

\* a rough estimate of an hour per kilometre
rough_duration_hour(distance_km) == distance_km * 60

\* duration_minutes = distance_km * 2
rough_duration(distance_km) == distance_km * 2

\* the Route of the straight line; estimated_fare plays no part here and is
\* left out
fallback_route(start_location, end_location) ==
  LET distance_km == calculate_distance(start_location, end_location)
  IN [start_location |-> start_location, end_location |-> end_location,
      waypoints |-> <<start_location, end_location>>,
      distance_km |-> distance_km,
      duration_minutes |-> rough_duration(distance_km)]

\* the Route built from the provider's first leg: metres / 1000 and
\* seconds / 60 in the model's units of 0.00001
provider_route(start_location, end_location, leg, now) ==
  [start_location |-> start_location, end_location |-> end_location,
   waypoints |-> [i \in 1..Len(leg.steps) |->
                    Location(leg.steps[i].lat, leg.steps[i].lng, now, 0)],
   distance_km |-> leg.distance * 100,
   duration_minutes |-> (leg.duration * 100000) \div 60]

\* the body of calculate_route once requests.get has come back: anything
\* that raises inside the try lands in the except branch
route_after(start_location, end_location, answer, now) ==
  IF answer.raised \/ ~answer.data.json THEN fallback_route(start_location, end_location)
  ELSE IF "status" \notin DOMAIN answer.data
         THEN fallback_route(start_location, end_location)
  ELSE IF answer.data.status # "OK"
         THEN fallback_route(start_location, end_location)
  ELSE IF answer.data.routes = <<>>
         THEN fallback_route(start_location, end_location)
  ELSE provider_route(start_location, end_location, answer.data.routes[1], now)

routeRest == <<geofences, created, last_second, workerClock, unmaintained,
               since_unblock>>
notRoute == <<clock, tz, gpsVars, tokenVars, limiterVars, threadVars, worker_pc,
              unblockVars, historyVars, routeRest>>

\* POST /api/gps/calculate-route: the Locations are built and
\* requests.get is sent, with no timeout argument
RouteRequest(start, end) ==
  /\ route_call.pc = "idle"
  /\ route_call' = [NoRoute EXCEPT !.pc = "waiting",
                      !.start_location = Location(start[1], start[2], clock, 0),
                      !.end_location = Location(end[1], end[2], clock, 0)]
  /\ UNCHANGED notRoute

\* the provider answers, or the connection fails
ProviderAnswer(answer) ==
  /\ route_call.pc = "waiting"
  /\ route_call' = [route_call EXCEPT !.pc = "answered", !.response = answer]
  /\ UNCHANGED notRoute

\* the rest of calculate_route, to its return
RouteReturn ==
  /\ route_call.pc = "answered"
  /\ route_call' = [route_call EXCEPT !.pc = "done",
       !.route = route_after(route_call.start_location, route_call.end_location,
                             route_call.response, clock)]
  /\ UNCHANGED notRoute

\* the route is sent to the caller
RouteFinish ==
  /\ route_call.pc = "done"
  /\ route_call' = NoRoute
  /\ UNCHANGED notRoute

\* ------------------------------------------------------------ geofences
FenceNames == {"depot", "airport"}
FenceRadii == {100}
FenceCenters == {<<0, 0>>, <<4, 0>>}

\* geofence_id = f"geofence_{int(time.time())}": the id is the whole second
\* of the call
geofence_id(second) == <<"geofence", second>>

\* create_geofence(name, center_location, radius_meters), called sub seconds
\* into the current tick; the system clock does not run backwards
CreateGeofence(name, center, radius_meters, sub) ==
  LET second == clock * TickSeconds + sub
      id == geofence_id(second)
      fence == [name |-> name,
                center |-> Location(center[1], center[2], clock, 0),
                radius_meters |-> radius_meters,
                created_at |-> second]
  IN /\ Len(created) < MaxFences
     /\ second >= last_second
     /\ geofences' = [k \in DOMAIN geofences \cup {id} |->
                        IF k = id THEN fence ELSE geofences[k]]
     /\ created' = Append(created, id)
     /\ last_second' = second
     /\ UNCHANGED <<clock, tz, route_call, workerClock, unmaintained, since_unblock,
                    gpsVars, tokenVars, identity, limiterVars, threadVars,
                    worker_pc, unblockVars, historyVars>>

Next ==
  \/ \E name \in FenceNames, center \in FenceCenters, radius_meters \in FenceRadii,
        sub \in {0, 1} :
       CreateGeofence(name, center, radius_meters, sub)
  \/ \E slat, elat \in Latitudes, slon, elon \in Longitudes :
       RouteRequest(<<slat, slon>>, <<elat, elon>>)
  \/ \E answer \in ProviderAnswers : ProviderAnswer(answer)
  \/ RouteReturn
  \/ RouteFinish
  \/ Tick
  \/ TickLong
  \/ \E n \in {1, DayTicks - 1} : Elapse(n)
  \/ \E t \in Threads, user_id \in Drivers, latitude \in Latitudes,
        longitude \in Longitudes :
       UpdateLocation(t, user_id, "driver", latitude, longitude)
  \/ \E t \in Threads, user_id \in Passengers, latitude \in Latitudes,
        longitude \in Longitudes :
       UpdateLocation(t, user_id, "passenger", latitude, longitude)
  \/ \E t \in Threads : DriverCheck(t)
  \/ \E t \in Threads : DriverCreate(t)
  \/ \E t \in Threads : DriverAppend(t)
  \/ \E t \in Threads : DriverCap(t)
  \/ \E t \in Threads : DriverPrev(t)
  \/ \E t \in Threads : DriverSpeed(t)
  \/ \E t \in Threads : GpsFinish(t)
  \/ ProcessorStart
  \/ ProcessorRead
  \/ ProcessorFilter
  \/ ProcessorEmpty
  \/ ProcessorDel
  \/ ProcessorPassengers
  \/ \E latitude \in Latitudes, longitude \in Longitudes, radius_km \in Radii :
       FindNearbyDrivers(latitude, longitude, radius_km)
  \/ \E latitude \in Latitudes, longitude \in Longitudes, radius_km \in Radii :
       EnhancedFindNearbyDrivers(latitude, longitude, radius_km)
  \/ \E s \in Subjects : GenerateTokens(s)
  \/ \E token_type \in {"access", "refresh"} :
       \E token \in Presentable : VerifyToken(token, token_type)
  \/ \E token \in Presentable : RefreshAccessToken(token)
  \/ \E t \in Threads, r \in Requests : RequireAuth(t, r)
  \/ \E t \in Threads, r \in Requests : RateLimitArrive(t, r)
  \/ \E t \in Threads : RateLimitInner(t)
  \/ \E t \in Threads : Check(t)
  \/ \E t \in Threads : AppendRequest(t)
  \/ \E t \in Threads : IncrWrite(t)
  \/ \E t \in Threads : BlockCheck(t)
  \/ \E t \in Threads : Finish(t)
  \/ WorkerClean
  \/ WorkerReset
  \/ \E processing \in ProcessingUnits : WorkerResetTimed(processing)
  \/ \E ip \in IPs : UnblockRemove(ip)
  \/ UnblockDel

\* the whole program
Spec == Init /\ [][Next]_vars

\* ---------------------------------------------------------------- workloads
\* The window under concurrency: one client on the routes that rate_limit
\* alone decorates, with the worker's cleaning pass.
AdmitRequests ==
  {r \in Requests : r.ip = "ip1" /\ r.ua = "ua1" /\ ~Route(r.route).auth}

NextAdmit ==
  \/ Tick
  \/ \E t \in Threads, r \in AdmitRequests : RateLimitArrive(t, r)
  \/ \E t \in Threads : Check(t)
  \/ \E t \in Threads : AppendRequest(t)
  \/ \E t \in Threads : IncrWrite(t)
  \/ \E t \in Threads : BlockCheck(t)
  \/ \E t \in Threads : Finish(t)
  \/ WorkerClean
  \/ WorkerReset

InitUTC == Init /\ tz = 0

SpecAdmit == InitUTC /\ [][NextAdmit]_vars


\* Escalation: two clients behind one address, each on its own connection
\* and call site, with the daily reset and unblock_ip.
BlockRequest(t) ==
  IF t = "t1" THEN [ip |-> "ip1", ua |-> "ua1", route |-> "enhanced_register"]
              ELSE [ip |-> "ip1", ua |-> "ua2", route |-> "enhanced_login"]

TickShort == TickTo(ShortTime)

NextBlock ==
  \/ TickShort
  \/ \E t \in Threads : RateLimitArrive(t, BlockRequest(t))
  \/ \E t \in Threads : Check(t)
  \/ \E t \in Threads : AppendRequest(t)
  \/ \E t \in Threads : IncrWrite(t)
  \/ \E t \in Threads : BlockCheck(t)
  \/ \E t \in Threads : Finish(t)
  \/ WorkerClean
  \/ WorkerReset
  \/ \E ip \in IPs : UnblockRemove(ip)
  \/ UnblockDel

SpecBlock == InitUTC /\ [][NextBlock]_vars


\* The decorator stack: one client on the routes that require_auth and
\* rate_limit both decorate, on a host in any time zone.
GateRequests ==
  {r \in Requests : r.ip = "ip1" /\ r.ua = "ua1" /\ Route(r.route).auth}

NextGate ==
  \/ TickShort
  \/ \E t \in Threads, r \in GateRequests : RequireAuth(t, r)
  \/ \E t \in Threads : RateLimitInner(t)
  \/ \E t \in Threads : Check(t)
  \/ \E t \in Threads : AppendRequest(t)
  \/ \E t \in Threads : IncrWrite(t)
  \/ \E t \in Threads : BlockCheck(t)
  \/ \E t \in Threads : Finish(t)

SpecGate == Init /\ [][NextGate]_vars

\* The token service: logins of one user in every role, verifications and
\* refreshes over the life of an access token, on a host in any time zone.
NextToken ==
  \/ Tick
  \/ \E s \in HeaderSubjects : GenerateTokens(s)
  \/ \E token_type \in {"access", "refresh"} :
       \E token \in Presentable : VerifyToken(token, token_type)
  \/ \E token \in Presentable : RefreshAccessToken(token)

SpecToken == Init /\ [][NextToken]_vars

\* the token service on a host whose local time is UTC
SpecTokenUTC == InitUTC /\ [][NextToken]_vars

\* One driver's track past its cap: a long run of updates of d1 by one
\* thread, and a few of d2 once d1's track is full.
NextTrack ==
  \/ UpdateLocation("t1", "d1", "driver", 0, 0)
  \/ /\ Len(recorded["d1"]) >= TrackCap
     /\ UpdateLocation("t1", "d2", "driver", 2, 0)
  \/ DriverCheck("t1")
  \/ DriverCreate("t1")
  \/ DriverAppend("t1")
  \/ DriverCap("t1")
  \/ DriverPrev("t1")
  \/ DriverSpeed("t1")
  \/ GpsFinish("t1")

SpecTrack == InitUTC /\ [][NextTrack]_vars

\* Two threads recording locations of one driver at the same time.
NextRace ==
  \/ TickShort
  \/ \E t \in Threads, latitude \in {0, 2} :
       next_seq <= ShortRun /\ UpdateLocation(t, "d1", "driver", latitude, 0)
  \/ \E t \in Threads : DriverCheck(t)
  \/ \E t \in Threads : DriverCreate(t)
  \/ \E t \in Threads : DriverAppend(t)
  \/ \E t \in Threads : DriverCap(t)
  \/ \E t \in Threads : DriverPrev(t)
  \/ \E t \in Threads : DriverSpeed(t)
  \/ \E t \in Threads : GpsFinish(t)

SpecRace == InitUTC /\ [][NextRace]_vars

\* The pruning pass between updates, over a day and more: updates of two
\* drivers and a passenger by one thread, and passes that start and end
\* while no update is in progress.
NextPrune ==
  \/ \E n \in {1, DayTicks - 1} :
       /\ n = 1 => (clock < 1 \/ clock >= DayTicks - 1)
       /\ Elapse(n)
  \/ \E user_id \in {"d1", "d2"} :
       /\ next_seq <= ShortRun /\ processor.pc = "sleep"
       /\ UpdateLocation("t1", user_id, "driver", 0, 0)
  \/ /\ next_seq <= ShortRun /\ processor.pc = "sleep"
     /\ UpdateLocation("t1", "p1", "passenger", 0, 0)
  \/ DriverCheck("t1")
  \/ DriverCreate("t1")
  \/ DriverAppend("t1")
  \/ DriverCap("t1")
  \/ DriverPrev("t1")
  \/ DriverSpeed("t1")
  \/ GpsFinish("t1")
  \/ gps["t1"].pc = "idle" /\ ProcessorStart
  \/ ProcessorRead
  \/ ProcessorFilter
  \/ ProcessorEmpty
  \/ ProcessorDel
  \/ ProcessorPassengers

SpecPrune == InitUTC /\ [][NextPrune]_vars

\* Positions and queries: one thread records positions of three drivers and
\* a passenger anywhere on the model's grid, and both nearby-drivers routes
\* are asked from in-range origins.
GridPoints == {<<latitude, 0>> : latitude \in Latitudes} \cup {<<0, 36000000>>}
Origins == {<<0, 0>>, <<4, 0>>}

NextNearby ==
  \/ \E user_id \in Drivers, point \in GridPoints :
       /\ next_seq <= ShortRun
       /\ UpdateLocation("t1", user_id, "driver", point[1], point[2])
  \/ \E point \in GridPoints :
       /\ next_seq <= ShortRun
       /\ UpdateLocation("t1", "p1", "passenger", point[1], point[2])
  \/ DriverCheck("t1")
  \/ DriverCreate("t1")
  \/ DriverAppend("t1")
  \/ DriverCap("t1")
  \/ DriverPrev("t1")
  \/ DriverSpeed("t1")
  \/ GpsFinish("t1")
  \/ \E origin \in Origins, radius_km \in Radii :
       gps["t1"].pc = "idle" /\ FindNearbyDrivers(origin[1], origin[2], radius_km)
  \/ \E origin \in Origins, radius_km \in Radii :
       /\ gps["t1"].pc = "idle"
       /\ EnhancedFindNearbyDrivers(origin[1], origin[2], radius_km)

SpecNearby == InitUTC /\ [][NextNearby]_vars

\* Route calculations between the points of the grid, with every answer
\* the provider can give.
NextRoute ==
  \/ \E start, end \in GridPoints : RouteRequest(start, end)
  \/ \E answer \in ProviderAnswers : ProviderAnswer(answer)
  \/ RouteReturn
  \/ RouteFinish

SpecRoute == InitUTC /\ [][NextRoute]_vars

\* The same, with the program's own steps always taken in the end; nothing
\* obliges the provider to answer.
SpecRouteLive ==
  InitUTC /\ [][NextRoute]_vars /\ WF_vars(RouteReturn) /\ WF_vars(RouteFinish)

\* the worker on its wall clock for a day and the start of the next, with one
\* client sending requests over the strict call site all along
NextDaily ==
  \/ RateLimitArrive("t1", BlockRequest("t1"))
  \/ Check("t1")
  \/ AppendRequest("t1")
  \/ IncrWrite("t1")
  \/ BlockCheck("t1")
  \/ Finish("t1")
  \/ WorkerClean
  \/ \E processing \in ProcessingUnits : WorkerResetTimed(processing)

SpecDaily == InitUTC /\ [][NextDaily]_vars

\* ------------------------------------------------------------------ claims
Admitted(t) == pc[t] = "append" \/ (pc[t] = "done" /\ resp[t] = Ok200)
RateLimited(t) == pc[t] = "done" /\ resp[t] = RateLimited429(RouteOf(t))

\* the timestamps of q that lie in [lo, hi]
InWindow(q, lo, hi) == {i \in 1..Len(q) : lo <= q[i] /\ q[i] <= hi}

\* C1: when two requests of one client at one call site are in progress
\* together, their timestamps in one window, and the client's window has
\* exactly one slot left for each, at most one of the two is admitted.
C1_OneSlotOneAdmitted ==
  \A p \in race : \E t \in p : ~Admitted(t)

\* C1 witness: two such requests have both been answered, one admitted and
\* one rejected as rate limited.
C1_Witness ==
  \E p \in race : \E t \in p, u \in p :
    /\ t # u
    /\ pc[t] = "done" /\ resp[t] = Ok200
    /\ RateLimited(u)

\* C2: at the limit check of a request at a call site (max N, window W),
\* made at time now by a client whose address was not blocked: if N or more
\* timestamps of the client's window lie in [now - W, now] the request is
\* rejected, with retry_after = W in seconds; if every timestamp has left
\* the window the request is admitted.
C2_WindowMonotonicity ==
  /\ [][\A t \in Threads :
          (pc[t] = "lock" /\ pc'[t] # "lock") =>
            LET q == Deque(ClientOf(t))
            IN /\ Cardinality(InWindow(q, window_start(t), current_time[t]))
                    >= RouteOf(t).max
                  => pc'[t] = "incr_write"
               /\ (\A i \in 1..Len(q) : q[i] < window_start(t))
                  => pc'[t] = "append"]_vars
  /\ [](\A t \in Threads :
          (pc[t] = "done" /\ violated[t]) =>
            /\ resp[t].status = 429
            /\ resp[t].retry_after = RouteOf(t).window * TickSeconds)

\* C2 witness: one request of a client has been rejected at the strict call
\* site, and a later one of the same client at the same call site is being
\* admitted after its lazy prune dropped N expired timestamps.
C2_Witness ==
  \E t \in Threads, u \in Threads :
    /\ RateLimited(u)
    /\ pc[t] = "append"
    /\ ClientOf(t) = ClientOf(u) /\ req[t].route = req[u].route
    /\ popped[t] >= RouteOf(t).max

Sorted(q) == \A i \in 1..Len(q), j \in 1..Len(q) : i < j => q[i] <= q[j]

\* C8: right after the lazy prune of an admission check made at time now at
\* a call site with window W, the client's timestamps are in non-decreasing
\* order and all lie in [now - W, now].
C8_WindowSortedInRange ==
  \A t \in Threads :
    pc[t] \in {"append", "incr_write"} =>
      LET q == Deque(ClientOf(t))
      IN /\ Sorted(q)
         /\ \A i \in 1..Len(q) : window_start(t) <= q[i] /\ q[i] <= current_time[t]


\* thread t takes the step that enters rate_limit (the blocked check)
EntersRateLimit(t) ==
  \/ pc[t] = "rate_limit" /\ pc'[t] # "rate_limit"
  \/ /\ pc[t] = "idle" /\ pc'[t] # "idle"
     /\ EntryPoint(Route(req'[t].route)) = "rate_limit"

\* C3: counted from a state in which an address is not blocked and its
\* counter is 0, with no daily reset or unblock since, the address is in
\* BlockedSet exactly when 5 or more rate-limit rejections of it have been
\* answered, whatever clients and call sites they came from; the rejection
\* that blocks it is answered as an ordinary rate-limit rejection, and a
\* request entering the limiter once the address is blocked is answered as
\* blocked.
C3_EscalationAtFifth ==
  /\ [](\A ip \in IPs :
          clean[ip] # "no" =>
            (ip \in blocked_ips <=> rejections[ip] >= BlockThreshold))
  /\ [][\A ip \in IPs :
          (ip \notin blocked_ips /\ ip \in blocked_ips') =>
            \E t \in Threads :
              /\ req[t].ip = ip /\ pc[t] = "block_check"
              /\ resp'[t] = RateLimited429(RouteOf(t))]_vars
  /\ [][\A t \in Threads :
          (EntersRateLimit(t) /\ req'[t].ip \in blocked_ips) =>
            resp'[t] = Blocked429]_vars

\* C3 witness: the fifth rejection since the start has just blocked the
\* address; the two clients behind it, at two call sites, were both among
\* the rejected.
C3_Witness ==
  /\ clean["ip1"] # "no" /\ rejections["ip1"] = BlockThreshold
  /\ "ip1" \in blocked_ips
  /\ \A t \in Threads : RateLimited(t)
  /\ \E t \in Threads, u \in Threads :
       ClientOf(t) # ClientOf(u) /\ req[t].route # req[u].route

\* C4: a request that enters the limiter while its address is in BlockedSet
\* is answered as blocked and goes no further, and an address leaves
\* BlockedSet only by unblock_ip of that address: not by the clock, the
\* worker's cleaning pass or the daily reset.
C4_BlockedUntilUnblock ==
  /\ [][\A t \in Threads :
          (EntersRateLimit(t) /\ req'[t].ip \in blocked_ips) =>
            (pc'[t] = "done" /\ resp'[t] = Blocked429)]_vars
  /\ [][\A ip \in blocked_ips :
          ip \notin blocked_ips' =>
            (unblock_pc = "idle" /\ unblock_pc' = "del" /\ unblock_ip_arg' = ip)]_vars

\* C4 witness: windows have elapsed and a daily reset has cleared the counter
\* of a blocked address, unblock_ip was never called, and a request of the
\* address has been answered as blocked.
C4_Witness ==
  /\ "ip1" \in blocked_ips /\ suspicious_activities["ip1"] = 0
  /\ clock = ShortTime /\ unblock_pc = "idle" /\ unblock_result = NoResult
  /\ \E t \in Threads : pc[t] = "done" /\ resp[t] = Blocked429

\* C5: a step of a request whose address is in BlockedSet changes neither
\* the address's SuspicionCounter nor any RateWindow.
C5_BlockedTouchesNothing ==
  [][\A t \in Threads :
       (pc'[t] # pc[t] /\ pc[t] # "idle" /\ req[t].ip \in blocked_ips) =>
         /\ suspicious_activities' = suspicious_activities
         /\ \A c \in Clients :
              Get(rate_limits', c, <<>>) = Get(rate_limits, c, <<>>)]_vars

\* C9: unblock_ip(a) for a blocked address a removes a from BlockedSet and
\* sets its counter to 0 with a success answer; when no rejection of a is
\* being counted while it runs, a request of a entering the limiter
\* afterwards is not answered as blocked, and a is blocked again exactly when
\* 5 new rate-limit rejections of it have been answered.
C9_UnblockResets ==
  /\ [][\A ip \in IPs :
          (unblock_pc = "idle" /\ unblock_pc' = "del" /\ unblock_ip_arg' = ip) =>
            (ip \in blocked_ips /\ blocked_ips' = blocked_ips \ {ip})]_vars
  /\ [][(unblock_pc = "del" /\ unblock_pc' = "idle") =>
          /\ suspicious_activities'[unblock_ip_arg] = 0
          /\ unblock_result'.success]_vars
  /\ [](\A ip \in IPs :
          clean[ip] = "unblock" =>
            (ip \in blocked_ips <=> rejections[ip] >= BlockThreshold))
  /\ [][\A t \in Threads :
          (/\ EntersRateLimit(t)
           /\ clean[req'[t].ip] = "unblock"
           /\ rejections[req'[t].ip] < BlockThreshold) =>
            pc'[t] = "lock"]_vars

\* C9 witness: after an unblock the address was admitted again, collected 5
\* new rejections and is blocked again.
C9_Witness ==
  /\ clean["ip1"] = "unblock" /\ rejections["ip1"] = BlockThreshold
  /\ "ip1" \in blocked_ips


\* the token of the last verification is the access token that
\* generate_tokens issued for the session's user
IssuedAccess(token) ==
  /\ token.sig = jwt_secret_key
  /\ token.payload.type = "access"
  /\ token = generate_tokens(session.user, token.payload.iat).access_token

\* C6: on a route under both decorators the limiter runs before the token
\* check: a request answered 429 has not had its token verified, and a
\* request answered 401 has been admitted to (and recorded in) its window.
C6_LimiterBeforeAuth ==
  \A t \in Threads :
    (pc[t] = "done" /\ Route(req[t].route).auth) =>
      /\ resp[t].status = 429 => ~verified[t]
      /\ resp[t].status = 401 => appended[t]

\* C7: a request answered 401 or 403 by require_auth changes no counter, no
\* window and not the blocklist, and is never counted as a violation.
C7_AuthFailureNotCounted ==
  /\ [][\A t \in Threads :
          (pc[t] = "idle" /\ pc'[t] = "done" /\ resp'[t].status \in {401, 403}) =>
            /\ suspicious_activities' = suspicious_activities
            /\ blocked_ips' = blocked_ips
            /\ rate_limits' = rate_limits]_vars
  /\ [](\A t \in Threads :
          (pc[t] = "done" /\ resp[t].status \in {401, 403}) => ~violated[t])

\* C7 witness: one request answered 401 and one answered 403 while the
\* address stands one violation short of the block, and stays unblocked.
C7_Witness ==
  /\ \E t \in Threads, u \in Threads :
       /\ pc[t] = "done" /\ resp[t].status = 401
       /\ pc[u] = "done" /\ resp[u].status = 403
  /\ suspicious_activities["ip1"] = BlockThreshold - 1
  /\ "ip1" \notin blocked_ips

\* C10: verifying, as an access token and before its expiry, the access
\* token issued for a subject succeeds and returns the subject's id, email
\* and role.
C10_TokenRoundTrip ==
  (/\ verify_call # NoVerification
   /\ verify_call.token_type = "access"
   /\ IssuedAccess(verify_call.token)
   /\ verify_call.now < verify_call.token.payload.exp) =>
     /\ verify_call.result.success
     /\ verify_call.result.payload.user_id = session.user.id
     /\ verify_call.result.payload.email = session.user.email
     /\ verify_call.result.payload.user_type =
          Get(session.user, "user_type", "passenger")


\* a token that carries the server's signature
ValidlySigned(token) == token.sig = jwt_secret_key

\* C11: a validly signed token of the expected kind whose exp is in the past
\* never verifies, and the failure says 'Token expired'; the same holds of
\* the verification inside refresh_access_token.
C11_ExpiredReason ==
  /\ (/\ verify_call # NoVerification
      /\ ValidlySigned(verify_call.token)
      /\ verify_call.token.payload.type = verify_call.token_type
      /\ verify_call.token.payload.exp < verify_call.now) =>
        verify_call.result = [success |-> FALSE, error |-> "Token expired"]
  /\ (/\ refresh_call # NoRefresh
      /\ ValidlySigned(refresh_call.token)
      /\ refresh_call.token.payload.type = "refresh"
      /\ refresh_call.token.payload.exp < refresh_call.now) =>
        refresh_call.result = [success |-> FALSE, error |-> "Token expired"]

\* C11 witness: an access token past its expiry was verified as an access
\* token on a host east of UTC, where only the decode can notice the expiry,
\* and an expired refresh token was refused by refresh_access_token.
C11_Witness ==
  /\ tz > 0
  /\ ValidlySigned(verify_call.token)
  /\ verify_call.token_type = "access"
  /\ verify_call.token.payload.type = "access"
  /\ verify_call.token.payload.exp < verify_call.now
  /\ verify_call.result.error = "Token expired"
  /\ refresh_call.token = StaleRefresh
  /\ refresh_call.result.error = "Token expired"

\* C12: verification of a validly signed, unexpired token whose kind is not
\* the expected one fails: an access token is refused by
\* refresh_access_token and a refresh token is refused as an access token.
C12_KindMustMatch ==
  /\ (/\ verify_call # NoVerification
      /\ ValidlySigned(verify_call.token)
      /\ verify_call.token.payload.exp > verify_call.now
      /\ verify_call.token.payload.type # verify_call.token_type) =>
        ~verify_call.result.success
  /\ (/\ refresh_call # NoRefresh
      /\ ValidlySigned(refresh_call.token)
      /\ refresh_call.token.payload.type = "access") =>
        ~refresh_call.result.success

\* C12 witness: on a UTC host the session's unexpired access token was sent
\* to refresh and its refresh token was verified as an access token; both
\* were refused for their kind.
C12_Witness ==
  /\ tz = 0 /\ session # NoSession
  /\ refresh_call.token = session.access_token
  /\ refresh_call.token.payload.exp > refresh_call.now
  /\ refresh_call.result.error = "Invalid token type"
  /\ verify_call.token = session.refresh_token
  /\ verify_call.token_type = "access"
  /\ verify_call.result.error = "Invalid token type"

\* C13: refreshing with the refresh token issued for a subject succeeds and
\* the new access token verifies to the subject's id, email and role.
C13_RefreshKeepsSubject ==
  (/\ refresh_call # NoRefresh
   /\ refresh_call.token = session.refresh_token) =>
     /\ refresh_call.result.success
     /\ LET v == verify_token(refresh_call.result.access_token, "access",
                              refresh_call.now, tz)
        IN /\ v.success
           /\ v.payload.user_id = session.user.id
           /\ v.payload.email = session.user.email
           /\ v.payload.user_type = Get(session.user, "user_type", "passenger")

\* C14: a request whose token verified passes require_auth exactly when the
\* route requires no role or the token's role is one of the required roles;
\* otherwise it is answered 403 and the handler does not run.
C14_RoleMembership ==
  /\ [][\A t \in Threads :
          (pc[t] = "idle" /\ pc'[t] # "idle" /\ identity'[t] # NoIdentity) =>
            LET roles == Route(req'[t].route).roles
                role == Get(identity'[t], "user_type", "passenger")
            IN IF roles = {} \/ role \in roles
                 THEN pc'[t] = "rate_limit"
                 ELSE /\ pc'[t] = "done"
                      /\ resp'[t] = AuthError(403, "Insufficient permissions")]_vars
  /\ [](\A t \in Threads :
          (pc[t] = "done" /\ resp[t].status = 403) => ~appended[t])

\* C14 witness: on the drivers' route a passenger was answered 403 and a
\* driver's request reached the handler.
C14_Witness ==
  \E t \in Threads, u \in Threads :
    /\ pc[t] = "done" /\ resp[t].status = 403
    /\ req[t].route = "update_driver_location"
    /\ identity[t].user_type = "passenger"
    /\ pc[u] = "done" /\ resp[u] = Ok200 /\ appended[u]
    /\ req[u].route = "update_driver_location"
    /\ identity[u].user_type = "driver"

\* latitude within [-90, 90] and longitude within [-180, 180]
InRange(loc) ==
  /\ -LatMax <= loc.latitude /\ loc.latitude <= LatMax
  /\ -LonMax <= loc.longitude /\ loc.longitude <= LonMax

\* C15: every Location held in a driver's track or as a passenger's position
\* has its latitude within [-90, 90] and its longitude within [-180, 180]:
\* an update with a coordinate out of range stores nothing.
C15_StoredInRange ==
  /\ \A i \in 1..Len(driver_locations) :
       \A j \in 1..Len(driver_locations[i].locations) :
         InRange(driver_locations[i].locations[j])
  /\ \A p \in DOMAIN passenger_locations : InRange(passenger_locations[p])

\* the identities of the locations of a list, in order
Seqs(locations) == [j \in 1..Len(locations) |-> locations[j].seq]

\* no update stands between its append and its cap
NoneAtCap == \A t \in Threads : gps[t].pc # "cap"

\* C16: after any sequence of driver updates every driver's track holds at
\* most 100 entries: the most recently appended ones, in arrival order, and
\* exactly the last 100 once more than 100 have been recorded.
C16_TrackIsLastHundred ==
  NoneAtCap =>
    \A d \in Keys(driver_locations) :
      /\ Len(Track(driver_locations, d)) <= TrackCap
      /\ Seqs(Track(driver_locations, d)) = Last(recorded[d], TrackCap)

\* more than 100 locations of d1 have been recorded and 100 are held, and
\* d2's shorter track is whole
C16_Witness ==
  /\ NoneAtCap
  /\ recorded["d2"] # <<>>
  /\ Len(recorded["d1"]) > TrackCap
  /\ "d1" \in Keys(driver_locations)
  /\ Len(Track(driver_locations, "d1")) = TrackCap
  /\ Track(driver_locations, "d1")[1].seq = Len(recorded["d1"]) - TrackCap + 1

\* C17: for any interleaving of two concurrent updates of one driver, the
\* speed stored on a newly recorded location is derived from the entry that
\* immediately precedes it in the driver's track, never from the location
\* itself or from the other update's slot.
C17_SpeedFromPredecessor ==
  [][\A t \in Threads :
       (gps[t].pc = "speed" /\ gps'[t].pc = "done") =>
         LET track == Track(driver_locations, gps[t].driver_id)
         IN \E i \in 2..Len(track) :
              /\ track[i].seq = gps[t].location.seq
              /\ track[i - 1].seq = gps[t].prev_location.seq]_vars

\* captured earlier than the pass's now - 24h
OlderThanMaxAge(loc) == loc.timestamp < processor.cutoff_time
NotOlderThanMaxAge(loc) == ~OlderThanMaxAge(loc)

\* C18: a prune pass removes a driver's track entry or a passenger's position
\* if and only if it was captured earlier than now - 24h, with the same
\* boundary for both, and leaves no driver id mapped to an empty track.
C18_PruneExactlyOlder ==
  [][/\ (processor.pc = "filter" /\ processor'.pc = "empty") =>
          LET driver_id == Head(processor.keys)
          IN Track(driver_locations', driver_id) =
               SelectSeq(Track(driver_locations, driver_id), NotOlderThanMaxAge)
     /\ (processor.pc = "passengers" /\ processor'.pc = "sleep") =>
          /\ \A p \in DOMAIN passenger_locations :
               p \in DOMAIN passenger_locations' <=>
                 NotOlderThanMaxAge(passenger_locations[p])
          /\ \A i \in 1..Len(driver_locations') :
               driver_locations'[i].locations # <<>>]_vars

\* C19: a nearby-drivers query given an origin and a radius returns exactly
\* the drivers whose latest recorded location is within the radius of the
\* origin, each once, in ascending order of their distance from the origin;
\* drivers beyond the radius or without a location do not appear.
C19_NearbyExactAscending ==
  [][(nearby_call' # nearby_call /\ nearby_call'.max_results = 0) =>
       LET origin == Location(nearby_call'.latitude, nearby_call'.longitude, 0, 0)
           res == nearby_call'.nearby_drivers
           Latest(d) == Track(driver_locations, d)[Len(Track(driver_locations, d))]
           Dist(d) == calculate_distance(origin, Latest(d))
           Near == {d \in Keys(driver_locations) :
                      /\ Track(driver_locations, d) # <<>>
                      /\ Dist(d) <= nearby_call'.radius_km}
       IN /\ nearby_call'.success
          /\ {res[i].driver_id : i \in 1..Len(res)} = Near
          /\ Len(res) = Cardinality(Near)
          /\ \A i, j \in 1..Len(res) :
               i < j => Dist(res[i].driver_id) <= Dist(res[j].driver_id)]_vars

\* C20: a nearby-drivers query that carries max_results answers with the
\* in-range drivers truncated to max_results: never more than max_results of
\* them, and the max_results nearest when more are in range.
C20_TruncatedToMaxResults ==
  [][(nearby_call' # nearby_call /\ nearby_call'.max_results > 0) =>
       LET origin == Location(nearby_call'.latitude, nearby_call'.longitude, 0, 0)
           in_range == find_nearby_drivers(driver_locations, origin,
                                           nearby_call'.radius_km)
           n == IF Len(in_range) > nearby_call'.max_results
                  THEN nearby_call'.max_results ELSE Len(in_range)
       IN /\ nearby_call'.success
          /\ nearby_call'.nearby_drivers = SubSeq(in_range, 1, n)]_vars

\* the provider call raised, or gave no usable status, or a status other
\* than OK
ProviderFailed(answer) ==
  \/ answer.raised
  \/ ~answer.data.json
  \/ "status" \notin DOMAIN answer.data
  \/ answer.data.status # "OK"

\* C21: whenever the provider call raises, is unreachable or answers with a
\* status other than OK, calculate_route returns a Route whose waypoints are
\* the start and the end, whose distance is the distance between them and
\* whose duration in minutes is twice that distance.
C21_FallbackRoute ==
  (route_call.pc = "done" /\ ProviderFailed(route_call.response)) =>
    /\ route_call.route.waypoints =
         <<route_call.start_location, route_call.end_location>>
    /\ route_call.route.distance_km =
         calculate_distance(route_call.start_location, route_call.end_location)
    /\ route_call.route.duration_minutes = 2 * route_call.route.distance_km

\* a route between two different points was answered after the provider
\* call raised
C21_Witness ==
  /\ route_call.pc = "done"
  /\ route_call.response.raised
  /\ route_call.route.distance_km > 0
  /\ Len(route_call.route.waypoints) = 2

\* C22: calculate_route always terminates: a call waiting for the provider
\* returns in the end, whether or not the provider ever answers.
C22_RouteTerminates ==
  (route_call.pc = "waiting") ~> (route_call.pc = "done")

\* the answer of unblock_ip for an address that is not blocked
NotBlockedAnswer == [success |-> FALSE, error |-> "IP address is not blocked"]

\* C23: unblock_ip of an address that is not blocked changes nothing and
\* answers with a result that is not a success: the blocked set, every
\* violation counter (the address's own too) and the rate-limit table are
\* as before, so a second call finds the state the first one found.
C23_UnblockNotBlockedNoOp ==
  [][\A ip \in IPs :
       (unblock_pc = "idle" /\ unblock_pc' = "idle" /\ ip \notin blocked_ips
          /\ unblock_ip_arg' = ip
          /\ (unblock_ip_arg' # unblock_ip_arg \/ unblock_result' # unblock_result)) =>
         /\ unblock_result' = NotBlockedAnswer
         /\ ~unblock_result'.success
         /\ blocked_ips' = blocked_ips
         /\ suspicious_activities' = suspicious_activities
         /\ rate_limits' = rate_limits]_vars

\* unblock_ip has just answered for an address that is not blocked and has
\* violations counted
C23_Witness ==
  /\ unblock_pc = "idle"
  /\ unblock_result = NotBlockedAnswer
  /\ unblock_ip_arg \in IPs
  /\ unblock_ip_arg \notin blocked_ips
  /\ suspicious_activities[unblock_ip_arg] > 0

\* geofences created within one second and across seconds and ticks
NextFence ==
  \/ TickShort
  \/ \E name \in FenceNames, center \in FenceCenters, radius_meters \in FenceRadii,
        sub \in {0, 1} :
       CreateGeofence(name, center, radius_meters, sub)

SpecFence == InitUTC /\ [][NextFence]_vars

\* a client that sends requests during the first tick and then stops, while
\* the clock and the worker keep running; every thread that has a step to
\* take is scheduled, and a with block is always left
NextClean ==
  \/ Tick
  \/ \E t \in Threads, r \in AdmitRequests : clock = 0 /\ RateLimitArrive(t, r)
  \/ \E t \in Threads : Check(t)
  \/ \E t \in Threads : AppendRequest(t)
  \/ \E t \in Threads : IncrWrite(t)
  \/ \E t \in Threads : BlockCheck(t)
  \/ \E t \in Threads : Finish(t)
  \/ WorkerClean
  \/ WorkerReset

SpecClean ==
  /\ InitUTC /\ [][NextClean]_vars
  /\ WF_vars(Tick) /\ WF_vars(WorkerClean) /\ WF_vars(WorkerReset)
  /\ \A t \in Threads :
       /\ WF_vars(Check(t)) /\ WF_vars(AppendRequest(t)) /\ WF_vars(IncrWrite(t))
       /\ WF_vars(BlockCheck(t)) /\ WF_vars(Finish(t))

\* requests of one client at the strict call site, one of which is kept from
\* the lock while the clock and the worker run on
StallRequest == [ip |-> "ip1", ua |-> "ua1", route |-> "enhanced_register"]

NextStall ==
  \/ TickLong
  \/ \E t \in Threads : RateLimitArrive(t, StallRequest)
  \/ \E t \in Threads : Check(t)
  \/ \E t \in Threads : AppendRequest(t)
  \/ \E t \in Threads : IncrWrite(t)
  \/ \E t \in Threads : BlockCheck(t)
  \/ \E t \in Threads : Finish(t)
  \/ WorkerClean
  \/ WorkerReset

SpecStall == InitUTC /\ [][NextStall]_vars

\* updates of one driver running while the prune pass runs, a day and more
\* after the driver's earlier positions
NextPruneRace ==
  \/ \E n \in {1, DayTicks - 1} :
       /\ n = 1 => (clock < 1 \/ clock >= DayTicks - 1)
       /\ Elapse(n)
  \/ /\ next_seq <= ShortRun
     /\ UpdateLocation("t1", "d1", "driver", 0, 0)
  \/ DriverCheck("t1")
  \/ DriverCreate("t1")
  \/ DriverAppend("t1")
  \/ DriverCap("t1")
  \/ DriverPrev("t1")
  \/ DriverSpeed("t1")
  \/ GpsFinish("t1")
  \/ ProcessorStart
  \/ ProcessorRead
  \/ ProcessorFilter
  \/ ProcessorEmpty
  \/ ProcessorDel
  \/ ProcessorPassengers

SpecPruneRace == InitUTC /\ [][NextPruneRace]_vars

\* C24: the worker clears the violation counters exactly once per local day
\* and never touches the blocked set: once a day's first five minutes are
\* over for the worker (its latest pass came later in that day), that day has
\* had one reset and no more, and no pass of the worker changes blocked_ips.
C24_ResetOncePerDay ==
  [][(worker_pc = "reset" /\ worker_pc' = "clean" /\ wall' # wall) =>
       /\ blocked_ips' = blocked_ips
       /\ resets_today' <= 1
       /\ (TimeOfDay(wall' - SleepUnits) >= ResetWindow => resets_today' = 1)]_vars

\* C25: every call of create_geofence returns an id that no earlier call
\* returned, so after k calls the store holds k geofences.
C25_FenceIdsDistinct ==
  /\ \A i, j \in 1..Len(created) : i # j => created[i] # created[j]
  /\ Cardinality(DOMAIN geofences) = Len(created)

\* C26: the rate-limit table cleans itself: the entry of a client that has
\* stopped sending requests is eventually removed by the worker, and right
\* after each cleaning pass no client maps to an empty window.
C26_TableSelfCleaning ==
  /\ \A c \in Clients : (c \in DOMAIN rate_limits) ~> (c \notin DOMAIN rate_limits)
  /\ [][(worker_pc = "clean" /\ worker_pc' = "reset") =>
          \A c \in DOMAIN rate_limits' : rate_limits'[c] # <<>>]_vars

\* the worker has just removed the entry of a client whose requests had been
\* admitted
C26_Witness ==
  /\ worker_pc = "reset"
  /\ \E c \in Clients : unmaintained[c] # <<>> /\ c \notin DOMAIN rate_limits

\* C27: the window is kept per client and shared by the call sites: at the
\* limit check of a request at a call site with limit max, the request is
\* admitted exactly when fewer than max of the client's recorded requests,
\* whatever call sites admitted them, lie in [now - W, now].
C27_SharedWindowAdmission ==
  [][\A t \in Threads :
       (pc[t] = "lock" /\ pc'[t] # "lock") =>
         LET q == Deque(ClientOf(t))
         IN pc'[t] = "append" <=>
              Cardinality(InWindow(q, window_start(t), current_time[t]))
                < RouteOf(t).max]_vars

\* C28: the worker's cleaning pass changes no decision: at every limit check
\* (all call sites have a window of at most an hour) the request is over the
\* limit exactly when it would be with a table that no cleaning pass ever
\* touched.
C28_CleaningChangesNoDecision ==
  [][\A t \in Threads :
       (pc[t] = "lock" /\ pc'[t] # "lock") =>
         (OverLimit(Prune(Deque(ClientOf(t)), window_start(t)), RouteOf(t).max)
            <=> OverLimit(Prune(unmaintained[ClientOf(t)], window_start(t)),
                          RouteOf(t).max))]_vars

\* the position of an update is not older than 24 hours
Fresh(loc) == loc.timestamp > clock - DayTicks

\* C29: an update of a driver's position with a fresh location that runs
\* while a prune pass runs is never lost: the call returns success, and once
\* the pass is over too the location is the latest entry of the driver's
\* track.
C29_UpdateSurvivesPrune ==
  \A t \in Threads :
    (gps[t].pc = "done" /\ gps[t].driver_id \in Drivers /\ Fresh(gps[t].location)) =>
      /\ gps[t].result.success
      /\ processor.pc = "sleep" =>
           /\ gps[t].driver_id \in Keys(driver_locations)
           /\ LET locations == Track(driver_locations, gps[t].driver_id)
              IN /\ locations # <<>>
                 /\ locations[Len(locations)].seq = gps[t].location.seq

\* C30: once unblock_ip(a) has returned success, a is not in BlockedSet
\* again before 5 further rate-limit rejections of a have been answered,
\* whatever requests of a were in progress during the call.
C30_UnblockedUntilFiveMore ==
  \A ip \in IPs : ip \in blocked_ips => since_unblock[ip] = BlockThreshold
====
